---- MODULE Spec2Model ----
(***************************************************************************)
(* A model of the simple stock exchange of src/main.py: Trade, Stock and   *)
(* StockExchangeEngine.  Times are whole minutes.  Python numbers that can *)
(* be the result of a true division are modelled as exact rationals        *)
(* <<numerator, denominator>> in lowest terms (an int n is <<n, 1>>, so    *)
(* that 115 = 115.0 as in Python); floating-point rounding is not modelled.*)
(***************************************************************************)
EXTENDS Integers, Sequences, FiniteSets, TLC

\* all_stocks: the dict of the engine, symbol to Stock
\* now:        the clock, what datetime.now() gives
\* ret:        the last call since the clock moved, and what it returned or raised
\* submitted:  what the caller submitted for each registered symbol, in order
VARIABLES all_stocks, now, ret, submitted

vars == <<all_stocks, now, ret, submitted>>

(* ------------------------------ bounds --------------------------------- *)

\* the clock advances MaxTicks times, five minutes each time
MaxTicks == 2
\* the trades recorded by the stocks of the exchange, all together
MaxTrades == 2
\* the trades recorded by the one stock of LedgerSpec
MaxLedgerTrades == 3

Symbols == {"TEA", "GIN"}
LedgerSymbols == {"TEA"}

\* the timestamps of the trades submitted; the clock starts at 0
TradeTimes == {-20, -5}
LedgerTradeTimes == {-20, -10, -5}

\* <<price, quantity, buyVsSell>> of the trades submitted
TradeInputs == {<<110, 5, FALSE>>, <<0, 5, TRUE>>}
LedgerTradeInputs == {<<100, 10, TRUE>>, <<110, 5, FALSE>>, <<120, 5, TRUE>>}

\* <<initial_price, preferredVsCommon, par_value, last_dividend, fixed_dividend in percent>>
StockInputs == {<<120, FALSE, 100, 0, 0>>, <<200, TRUE, 100, 8, 2>>, <<150, FALSE, 60, -3, 0>>}

(* ----------------------------- numbers --------------------------------- *)

Abs(n) == IF n < 0 THEN -n ELSE n

RECURSIVE GCD(_, _)
GCD(a, b) == IF b = 0 THEN a ELSE GCD(b, a % b)

\* the rational n / d, d # 0, in lowest terms with a positive denominator
Rat(n, d) ==
    LET g == GCD(Abs(n), Abs(d))
        s == IF d < 0 THEN -1 ELSE 1
    IN  <<(s * n) \div g, (s * d) \div g>>

IntToRat(n) == <<n, 1>>

RatMul(a, b) == Rat(a[1] * b[1], a[2] * b[2])

\* a / b for b # 0
RatDiv(a, b) == Rat(a[1] * b[2], a[2] * b[1])

IsZero(a) == a[1] = 0

None == [none |-> TRUE]

(* ------------------------------- Trade --------------------------------- *)

Trade(symbol, t, quantity, buyVsSell, price) ==
    [symbol |-> symbol, timestamp |-> t, quantity |-> quantity,
     buyVsSell |-> buyVsSell, price |-> price]

(* ------------------------------- Stock --------------------------------- *)

fifteen_minutes == 15

StockInit(symbol, initial_price, preferredVsCommon, par_value, last_dividend, fixed_dividend) ==
    [symbol |-> symbol, trades |-> <<>>, price |-> IntToRat(initial_price),
     preferred |-> preferredVsCommon, par_value |-> par_value,
     last_dividend |-> last_dividend, fixed_dividend |-> fixed_dividend]

\* the loop of recalculate_price from position i on: the totals
\* <<total_qty, total_traded_value>> it ends with
RECURSIVE ScanTrades(_, _, _, _, _)
ScanTrades(trades, i, total_qty, total_traded_value, current_time) ==
    IF i > Len(trades) THEN <<total_qty, total_traded_value>>
    ELSE LET t == trades[i]
             time_diff == current_time - t.timestamp
         IN  IF time_diff <= fifteen_minutes
             THEN ScanTrades(trades, i + 1, total_qty + t.quantity,
                             total_traded_value + (t.price * t.quantity), current_time)
             ELSE <<total_qty, total_traded_value>>

\* mutant of recalculate_price: the price falls to 0 when no trade is counted
recalculate_price_resetting(stock, current_time) ==
    LET totals == ScanTrades(stock.trades, 1, 0, 0, current_time)
    IN  IF totals[1] > 0
        THEN [stock EXCEPT !.price = Rat(totals[2], totals[1])]
        ELSE [stock EXCEPT !.price = IntToRat(0)]

\* the stock after recalculate_price at current_time
recalculate_price(stock, current_time) ==
    LET totals == ScanTrades(stock.trades, 1, 0, 0, current_time)
    IN  IF totals[1] > 0
        THEN [stock EXCEPT !.price = Rat(totals[2], totals[1])]
        ELSE stock

\* mutant of stock_record_trade: a trade older than the window is not kept
stock_record_trade_windowed(stock, trade, current_time) ==
    IF current_time - trade.timestamp <= fifteen_minutes
    THEN recalculate_price([stock EXCEPT !.trades = Append(@, trade)], current_time)
    ELSE recalculate_price(stock, current_time)

\* the stock after Stock.record_trade at current_time
stock_record_trade(stock, trade, current_time) ==
    recalculate_price([stock EXCEPT !.trades = Append(@, trade)], current_time)

Ok(v) == [status |-> "ok", value |-> v]
Raise(e) == [status |-> e, value |-> None]

\* mutant of get_dividend_yield: a price of zero gives a yield of zero
get_dividend_yield_guarded(stock) ==
    IF IsZero(stock.price) THEN Ok(IntToRat(0))
    ELSE IF stock.preferred
         THEN Ok(RatDiv(IntToRat(stock.par_value * stock.last_dividend), stock.price))
         ELSE Ok(RatDiv(IntToRat(stock.last_dividend), stock.price))

get_dividend_yield(stock) ==
    IF IsZero(stock.price) THEN Raise("ZeroDivisionError")
    ELSE IF stock.preferred
         THEN Ok(RatDiv(IntToRat(stock.par_value * stock.last_dividend), stock.price))
         ELSE Ok(RatDiv(IntToRat(stock.last_dividend), stock.price))

\* mutant of get_price_earnings_ratio: only a last dividend of 0 is refused
get_price_earnings_ratio_nonzero(stock) ==
    IF stock.last_dividend # 0
    THEN Ok(RatDiv(stock.price, IntToRat(stock.last_dividend)))
    ELSE Raise("ZeroDivisionError")

get_price_earnings_ratio(stock) ==
    IF stock.last_dividend > 0
    THEN Ok(RatDiv(stock.price, IntToRat(stock.last_dividend)))
    ELSE Raise("ZeroDivisionError")

(* ------------------------ StockExchangeEngine -------------------------- *)

\* all_stocks is a Python dict: a sequence of entries in insertion order,
\* with pairwise different keys
Keys(d) == {d[i].key : i \in 1..Len(d)}

IndexOf(d, k) == CHOOSE i \in 1..Len(d) : d[i].key = k

Lookup(d, k) == d[IndexOf(d, k)].value

get_stock(d, symbol) ==
    IF symbol \in Keys(d) THEN Lookup(d, symbol) ELSE None

\* mutant of add_stock: the stock under a registered symbol is replaced
add_stock_replacing(d, symbol, initial_price, preferredVsCommon, par_value, last_dividend, fixed_dividend) ==
    LET stock == StockInit(symbol, initial_price, preferredVsCommon,
                           par_value, last_dividend, fixed_dividend)
    IN  IF ~(symbol \in Keys(d))
        THEN Append(d, [key |-> symbol, value |-> stock])
        ELSE [d EXCEPT ![IndexOf(d, symbol)].value = stock]

\* mutant of add_stock: par value and last dividend change places
add_stock_swapping(d, symbol, initial_price, preferredVsCommon, par_value, last_dividend, fixed_dividend) ==
    IF ~(symbol \in Keys(d))
    THEN Append(d, [key |-> symbol,
                    value |-> StockInit(symbol, initial_price, preferredVsCommon,
                                        last_dividend, par_value, fixed_dividend)])
    ELSE d

add_stock(d, symbol, initial_price, preferredVsCommon, par_value, last_dividend, fixed_dividend) ==
    IF ~(symbol \in Keys(d))
    THEN Append(d, [key |-> symbol,
                    value |-> StockInit(symbol, initial_price, preferredVsCommon,
                                        par_value, last_dividend, fixed_dividend)])
    ELSE d

\* mutant of record_trade: a stock is made for a symbol that is not registered
record_trade_registering(d, symbol, trade, current_time) ==
    IF symbol \in Keys(d)
    THEN [d EXCEPT ![IndexOf(d, symbol)].value = stock_record_trade(@, trade, current_time)]
    ELSE Append(d, [key |-> symbol,
                    value |-> stock_record_trade(
                                  StockInit(symbol, trade.price, FALSE, 0, 0, IntToRat(0)),
                                  trade, current_time)])

\* mutant of record_trade: every stock records the trade
record_trade_everywhere(d, symbol, trade, current_time) ==
    IF symbol \in Keys(d)
    THEN [i \in 1..Len(d) |->
             [d[i] EXCEPT !.value = stock_record_trade(@, trade, current_time)]]
    ELSE d

record_trade(d, symbol, trade, current_time) ==
    IF symbol \in Keys(d)
    THEN [d EXCEPT ![IndexOf(d, symbol)].value = stock_record_trade(@, trade, current_time)]
    ELSE d

RatAdd(a, b) == Rat(a[1] * b[2] + b[1] * a[2], a[2] * b[2])

\* mutant of PricesProduct: the prices are added
RECURSIVE PricesSum(_, _, _)
PricesSum(d, i, prices_product) ==
    IF i > Len(d) THEN prices_product
    ELSE PricesSum(d, i + 1, RatAdd(prices_product, d[i].value.price))

\* the loop of get_all_share_index from entry i on
RECURSIVE PricesProduct(_, _, _)
PricesProduct(d, i, prices_product) ==
    IF i > Len(d) THEN prices_product
    ELSE PricesProduct(d, i + 1, RatMul(prices_product, d[i].value.price))

\* b^n for naturals b and n, or cap + 1 when b^n > cap
RECURSIVE PowCapped(_, _, _)
PowCapped(b, n, cap) ==
    IF n = 0 THEN 1
    ELSE LET p == PowCapped(b, n - 1, cap)
         IN  IF b = 0 THEN 0
             ELSE IF p > cap \div b THEN cap + 1
             ELSE p * b

\* the largest r in lo..hi with r^n <= x, given lo^n <= x
RECURSIVE RootBelow(_, _, _, _)
RootBelow(x, n, lo, hi) ==
    IF lo >= hi THEN lo
    ELSE LET mid == (lo + hi + 1) \div 2
         IN  IF PowCapped(mid, n, x) <= x
             THEN RootBelow(x, n, mid, hi)
             ELSE RootBelow(x, n, lo, mid - 1)

\* the n-th root of the natural number x when it is a natural number, else -1
IntRoot(x, n) ==
    LET r == RootBelow(x, n, 0, x)
    IN  IF PowCapped(r, n, x) = x THEN r ELSE -1

\* math.pow(x, 1/n) for a rational x >= 0 and n >= 1: the rational root
\* <<numerator, denominator>> when there is one, else the surd
\* <<numerator, denominator, n>> of the radicand and the degree
math_pow_root(x, n) ==
    IF n = 1 THEN x
    ELSE LET rn == IntRoot(x[1], n)
             rd == IntRoot(x[2], n)
         IN  IF rn >= 0 /\ rd >= 0 THEN <<rn, rd>>
             ELSE <<x[1], x[2], n>>

get_all_share_index(d) ==
    LET prices_product == PricesProduct(d, 1, IntToRat(1))
    IN  IF Len(d) = 0 THEN Raise("ZeroDivisionError")
        ELSE Ok(math_pow_root(prices_product, Len(d)))

(* ------------------------------ actions -------------------------------- *)

\* ret is the last call since the clock moved, with its argument and result
Call(op, symbol, arg, result) ==
    [op |-> op, symbol |-> symbol, arg |-> arg, result |-> result]

RECURSIVE TradesRecorded(_, _)
TradesRecorded(d, i) ==
    IF i > Len(d) THEN 0 ELSE Len(d[i].value.trades) + TradesRecorded(d, i + 1)

Init ==
    /\ all_stocks = <<>>
    /\ now = 0
    /\ ret = Call("init", "", None, Ok(None))
    /\ submitted = [s \in Symbols |-> <<>>]

\* time passes: datetime.now() is later at the next call
Tick ==
    /\ now + 5 <= 5 * MaxTicks
    /\ now' = now + 5
    /\ ret' = Call("tick", "", None, Ok(None))
    /\ UNCHANGED <<all_stocks, submitted>>

AddStockOf(symbols) ==
    \E symbol \in symbols, a \in StockInputs :
        /\ all_stocks' = add_stock(all_stocks, symbol, a[1], a[2], a[3], a[4], Rat(a[5], 100))
        /\ ret' = Call("add_stock", symbol, a, Ok(None))
        /\ UNCHANGED <<now, submitted>>

\* the caller builds a trade and submits it under the symbol of the trade
RecordTradeOf(symbols, times, inputs, max) ==
    \E symbol \in symbols, t \in times, i \in inputs :
        LET trade == Trade(symbol, t, i[2], i[3], i[1])
        IN  /\ TradesRecorded(all_stocks, 1) < max
            /\ all_stocks' = record_trade(all_stocks, symbol, trade, now)
            /\ ret' = Call("record_trade", symbol, trade, Ok(None))
            /\ submitted' = [submitted EXCEPT ![symbol] =
                                IF symbol \in Keys(all_stocks) THEN Append(@, trade) ELSE @]
            /\ UNCHANGED now

RecalculatePrice ==
    \E symbol \in Keys(all_stocks) :
        LET stock == recalculate_price(Lookup(all_stocks, symbol), now)
        IN  /\ all_stocks' = [all_stocks EXCEPT ![IndexOf(all_stocks, symbol)].value = stock]
            /\ ret' = Call("recalculate_price", symbol, None, Ok(stock.price))
            /\ UNCHANGED <<now, submitted>>

GetDividendYield ==
    \E symbol \in Keys(all_stocks) :
        /\ ret' = Call("get_dividend_yield", symbol, None,
                       get_dividend_yield(Lookup(all_stocks, symbol)))
        /\ UNCHANGED <<all_stocks, now, submitted>>

GetPriceEarningsRatio ==
    \E symbol \in Keys(all_stocks) :
        /\ ret' = Call("get_price_earnings_ratio", symbol, None,
                       get_price_earnings_ratio(Lookup(all_stocks, symbol)))
        /\ UNCHANGED <<all_stocks, now, submitted>>

GetAllShareIndex ==
    /\ ret' = Call("get_all_share_index", "", None, get_all_share_index(all_stocks))
    /\ UNCHANGED <<all_stocks, now, submitted>>

GetStock ==
    \E symbol \in Symbols :
        /\ ret' = Call("get_stock", symbol, None, Ok(get_stock(all_stocks, symbol)))
        /\ UNCHANGED <<all_stocks, now, submitted>>

(* The exchange with two symbols. *)

AddStock == AddStockOf(Symbols)

RecordTrade == RecordTradeOf(Symbols, TradeTimes, TradeInputs, MaxTrades)

Next ==
    \/ Tick
    \/ AddStock
    \/ RecordTrade
    \/ RecalculatePrice
    \/ GetDividendYield
    \/ GetAllShareIndex
    \/ GetStock

Spec == Init /\ [][Next]_vars

(* One stock of the exchange, with longer trade histories. *)

LedgerAddStock == AddStockOf(LedgerSymbols)

LedgerRecordTrade ==
    RecordTradeOf(LedgerSymbols, LedgerTradeTimes, LedgerTradeInputs, MaxLedgerTrades)

LedgerNext ==
    \/ Tick
    \/ LedgerAddStock
    \/ LedgerRecordTrade
    \/ RecalculatePrice
    \/ GetPriceEarningsRatio

LedgerSpec == Init /\ [][LedgerNext]_vars

(* ------------------------------ claims --------------------------------- *)

InWindow(trade, t) == t - trade.timestamp <= fifteen_minutes

\* the quantity and the traded value of ALL trades of a history in the
\* window at time t
RECURSIVE WindowQty(_, _)
WindowQty(trades, t) ==
    IF trades = <<>> THEN 0
    ELSE (IF InWindow(Head(trades), t) THEN Head(trades).quantity ELSE 0)
         + WindowQty(Tail(trades), t)

RECURSIVE WindowValue(_, _)
WindowValue(trades, t) ==
    IF trades = <<>> THEN 0
    ELSE (IF InWindow(Head(trades), t) THEN Head(trades).price * Head(trades).quantity ELSE 0)
         + WindowValue(Tail(trades), t)

NoTradeInWindow(trades, t) == \A i \in 1..Len(trades) : ~InWindow(trades[i], t)

Registered(symbol) == symbol \in Keys(all_stocks)

HasTrades(stock) == Len(stock.trades) > 0

\* C1: after recalculate_price, or a record_trade, on a stock at time now,
\* whenever the quantity of ALL trades of its history in the 15-minute
\* window is > 0, the price of the stock is the traded value of those trades
\* divided by their quantity, and recalculate_price returns it; in whatever
\* order the trades were recorded.
C1_PriceIsWindowAverage ==
    (ret.op \in {"record_trade", "recalculate_price"} /\ Registered(ret.symbol)) =>
        LET stock == Lookup(all_stocks, ret.symbol)
            qty == WindowQty(stock.trades, now)
        IN  qty > 0 =>
                /\ stock.price = Rat(WindowValue(stock.trades, now), qty)
                /\ ret.op = "recalculate_price" => ret.result = Ok(stock.price)

\* the history of the example of C1, recorded oldest first at time 0 on a
\* stock of initial price 120: the price is still 120, not 115
C1_FailingInput ==
    /\ Registered("TEA")
    /\ now = 0
    /\ ret.op = "record_trade"
    /\ Lookup(all_stocks, "TEA").trades =
           <<Trade("TEA", -20, 10, TRUE, 100), Trade("TEA", -10, 5, FALSE, 110),
             Trade("TEA", -5, 5, TRUE, 120)>>
    /\ Lookup(all_stocks, "TEA").price = <<120, 1>>
    /\ Rat(WindowValue(Lookup(all_stocks, "TEA").trades, now),
           WindowQty(Lookup(all_stocks, "TEA").trades, now)) = <<115, 1>>

\* C2: a recalculate_price, or a record_trade, on a stock whose history
\* then holds no trade in the 15-minute window (an empty history included)
\* leaves the price of the stock at its previous value and raises nothing.
C2_NoTradeInWindowKeepsPrice ==
    [][(ret'.op \in {"record_trade", "recalculate_price"} /\ Registered(ret'.symbol)) =>
          LET before == Lookup(all_stocks, ret'.symbol)
              after == Lookup(all_stocks', ret'.symbol)
          IN  NoTradeInWindow(after.trades, now') =>
                  /\ after.price = before.price
                  /\ ret'.result.status = "ok"
                  /\ ret'.op = "recalculate_price" => ret'.result.value = before.price]_vars

C2_Witness ==
    /\ ret.op = "record_trade"
    /\ Registered(ret.symbol)
    /\ Len(Lookup(all_stocks, ret.symbol).trades) >= 2
    /\ NoTradeInWindow(Lookup(all_stocks, ret.symbol).trades, now)

\* C5: the trade history of every registered stock is the sequence of the
\* trades submitted for it, in the order submitted, each as submitted.
C5_HistoryIsWhatWasSubmitted ==
    \A i \in 1..Len(all_stocks) :
        all_stocks[i].value.trades = submitted[all_stocks[i].key]

C5_Witness ==
    \E i \in 1..Len(all_stocks) :
        LET trades == all_stocks[i].value.trades
        IN  /\ Len(trades) >= 3
            /\ \E j \in 1..Len(trades) : ~InWindow(trades[j], now)
            /\ \E j \in 1..Len(trades) : InWindow(trades[j], now)

\* C7: get_price_earnings_ratio raises ZeroDivisionError when the last
\* dividend of the stock is zero or negative, and changes no stock; when the
\* last dividend is > 0 it returns price / last dividend (25 for a price of
\* 200 and a last dividend of 8).
C7_PriceEarningsRatio ==
    [][ret'.op = "get_price_earnings_ratio" =>
          LET stock == Lookup(all_stocks, ret'.symbol)
              r == ret'.result
          IN  /\ all_stocks' = all_stocks
              /\ stock.last_dividend <= 0 => r.status = "ZeroDivisionError"
              /\ stock.last_dividend > 0 =>
                    /\ r.status = "ok"
                    /\ RatMul(r.value, IntToRat(stock.last_dividend)) = stock.price
                    /\ (stock.price = <<200, 1>> /\ stock.last_dividend = 8) =>
                           r.value = <<25, 1>>]_vars

C7_Witness ==
    /\ ret.op = "get_price_earnings_ratio"
    /\ ret.result.status = "ZeroDivisionError"
    /\ Lookup(all_stocks, ret.symbol).last_dividend < 0
    /\ HasTrades(Lookup(all_stocks, ret.symbol))

\* the product of the prices of all registered stocks, in no order
RECURSIVE ProductOfPrices(_, _)
ProductOfPrices(d, keys) ==
    IF keys = {} THEN IntToRat(1)
    ELSE LET k == CHOOSE x \in keys : TRUE
         IN  RatMul(Lookup(d, k).price, ProductOfPrices(d, keys \ {k}))

RECURSIVE RatPow(_, _)
RatPow(a, n) == IF n = 0 THEN IntToRat(1) ELSE RatMul(a, RatPow(a, n - 1))

\* v is the n-th root of the rational x: a rational whose n-th power is x,
\* or the surd of x and n
IsNthRoot(v, n, x) ==
    IF Len(v) = 2 THEN RatPow(v, n) = x ELSE v = <<x[1], x[2], n>>

\* the attributes of a stock that no operation is to change
Static(stock) ==
    <<stock.symbol, stock.preferred, stock.par_value, stock.last_dividend,
      stock.fixed_dividend>>

\* C3: add_stock with a symbol that is already registered raises nothing
\* and leaves the whole registry as it was, whatever the other arguments.
C3_AddStockIdempotent ==
    [][(ret'.op = "add_stock" /\ Registered(ret'.symbol)) =>
          /\ all_stocks' = all_stocks
          /\ ret'.result.status = "ok"]_vars

C3_Witness ==
    /\ ret.op = "add_stock"
    /\ Registered(ret.symbol)
    /\ HasTrades(Lookup(all_stocks, ret.symbol))
    /\ Lookup(all_stocks, ret.symbol).preferred # ret.arg[2]
    /\ Lookup(all_stocks, ret.symbol).last_dividend # ret.arg[4]
    /\ Lookup(all_stocks, ret.symbol).price # IntToRat(ret.arg[1])

\* C4: record_trade with a symbol that is not registered raises nothing and
\* leaves the registry, its symbols and every ledger, as it was.
C4_UnknownSymbolIgnored ==
    [][(ret'.op = "record_trade" /\ ~Registered(ret'.symbol)) =>
          /\ all_stocks' = all_stocks
          /\ ret'.result.status = "ok"]_vars

C4_Witness ==
    /\ ret.op = "record_trade"
    /\ ~Registered(ret.symbol)
    /\ Len(all_stocks) = 1
    /\ HasTrades(all_stocks[1].value)

\* C6: after add_stock of a symbol that was not registered, get_stock of
\* the symbol gives a stock with that symbol, the initial price as its
\* price, no trades, and the kind, par value and last dividend given.
C6_AddThenGet ==
    [][(ret'.op = "add_stock" /\ ~Registered(ret'.symbol)) =>
          LET stock == get_stock(all_stocks', ret'.symbol)
              a == ret'.arg
          IN  /\ stock # None
              /\ stock.symbol = ret'.symbol
              /\ stock.price = IntToRat(a[1])
              /\ stock.trades = <<>>
              /\ stock.preferred = a[2]
              /\ stock.par_value = a[3]
              /\ stock.last_dividend = a[4]]_vars

C6_Witness ==
    /\ ret.op = "add_stock"
    /\ Len(all_stocks) = 2
    /\ all_stocks[2].key = ret.symbol
    /\ HasTrades(all_stocks[1].value)
    /\ get_stock(all_stocks, ret.symbol).trades = <<>>
    /\ get_stock(all_stocks, ret.symbol).price = IntToRat(ret.arg[1])
    /\ get_stock(all_stocks, ret.symbol).last_dividend = ret.arg[4]

\* C8: get_dividend_yield raises ZeroDivisionError exactly when the price
\* of the stock is zero; otherwise it returns par value x last dividend /
\* price for a preferred stock and last dividend / price for a common one,
\* whatever the fixed dividend.
C8_DividendYield ==
    ret.op = "get_dividend_yield" =>
        LET stock == Lookup(all_stocks, ret.symbol)
            r == ret.result
        IN  /\ r.status = "ZeroDivisionError" <=> IsZero(stock.price)
            /\ ~IsZero(stock.price) =>
                  /\ r.status = "ok"
                  /\ RatMul(r.value, stock.price) =
                         IntToRat(IF stock.preferred
                                  THEN stock.par_value * stock.last_dividend
                                  ELSE stock.last_dividend)

C8_Witness ==
    /\ ret.op = "get_dividend_yield"
    /\ ret.result.status = "ZeroDivisionError"
    /\ \E i \in 1..Len(Lookup(all_stocks, ret.symbol).trades) :
           /\ Lookup(all_stocks, ret.symbol).trades[i].price = 0
           /\ InWindow(Lookup(all_stocks, ret.symbol).trades[i], now)

C10_RecordTradeFrame ==
    [][/\ \A i \in 1..Len(all_stocks') : all_stocks'[i].key = all_stocks'[i].value.symbol
       /\ (ret'.op = "record_trade" /\ Registered(ret'.symbol)) =>
             /\ Len(all_stocks') = Len(all_stocks)
             /\ \A i \in 1..Len(all_stocks) :
                   /\ all_stocks'[i].key = all_stocks[i].key
                   /\ Static(all_stocks'[i].value) = Static(all_stocks[i].value)
                   /\ all_stocks[i].key # ret'.symbol => all_stocks'[i] = all_stocks[i]
       /\ \A i \in 1..Len(all_stocks) :
             all_stocks'[i].value.price # all_stocks[i].value.price =>
                 /\ ret'.op \in {"record_trade", "recalculate_price"}
                 /\ ret'.symbol = all_stocks[i].key]_vars

C10_Witness ==
    /\ ret.op = "record_trade"
    /\ Registered(ret.symbol)
    /\ Len(all_stocks) = 2
    /\ \A i \in 1..2 : HasTrades(all_stocks[i].value)
    /\ all_stocks[1].value.price # all_stocks[2].value.price

====
